---- MODULE Spec2Model ----
(***************************************************************************)
(* Model of viewer.js, the three-screen album viewer: category list ->     *)
(* thumbnail gallery -> single-image viewer.                               *)
(*                                                                         *)
(* A JavaScript string is a sequence of one-character strings; characters  *)
(* outside ASCII are written by their code point ("U+3010" is the left     *)
(* bracket of a group title).  JavaScript null / undefined is NULL.        *)
(* Array indices are zero-based, as in the source.                         *)
(***************************************************************************)
EXTENDS Integers, Sequences, FiniteSets, TLC

VARIABLES
  screen,               \* which of the three screens showScreen made active
  currentCategoryKey,   \* let currentCategoryKey  (line 83)
  currentGroupIndex,    \* let currentGroupIndex   (line 84)
  currentPhotoIndex,    \* let currentPhotoIndex   (line 85)
  galleryTitle,         \* galleryTitle.textContent
  galleryContainer,     \* children of galleryContainer, in document order
  viewerImage,          \* viewerImage.src and viewerImage.alt
  viewerFilename,       \* viewerFilename.textContent
  viewerContext,        \* viewerContext.textContent
  lastError,            \* what the last handler threw ("none" if it returned)
  lastEvent,            \* history: the last event dispatched by the host
  entryGallery,         \* history: the Gallery as rendered by the last category click
  input,                \* argument of the pure function under check
  output,               \* its result
  pc                    \* "nav" | "ready" | "done"

vars == <<screen, currentCategoryKey, currentGroupIndex, currentPhotoIndex,
          galleryTitle, galleryContainer, viewerImage, viewerFilename,
          viewerContext, lastError, lastEvent, entryGallery, input, output, pc>>

navVars == <<screen, currentCategoryKey, currentGroupIndex, currentPhotoIndex,
             galleryTitle, galleryContainer, viewerImage, viewerFilename,
             viewerContext, lastError, lastEvent, entryGallery>>

-----------------------------------------------------------------------------
(* Values and strings *)

NULL == <<"null">>

\* an index variable holding null
NullIndex == -1

Digits == {"0", "1", "2", "3", "4", "5", "6", "7", "8", "9"}

Letters ==
  {"A", "B", "C", "D", "E", "F", "G", "H", "I", "J", "K", "L", "M",
   "N", "O", "P", "Q", "R", "S", "T", "U", "V", "W", "X", "Y", "Z",
   "a", "b", "c", "d", "e", "f", "g", "h", "i", "j", "k", "l", "m",
   "n", "o", "p", "q", "r", "s", "t", "u", "v", "w", "x", "y", "z"}

\* JavaScript truthiness of a string-or-null value
Truthy(v) == v # NULL /\ v # <<>>

\* a || b
OrElse(a, b) == IF Truthy(a) THEN a ELSE b

\* String.prototype.indexOf(c, from - 1) + 1: the first position >= from
\* holding character c, 0 when there is none
IndexOf(s, c, from) ==
  LET hits == {i \in from..Len(s) : s[i] = c}
  IN IF hits = {} THEN 0 ELSE CHOOSE i \in hits : \A j \in hits : i <= j

\* String.prototype.slice(from - 1): the suffix starting at position from
SliceFrom(s, from) == SubSeq(s, from, Len(s))

RECURSIVE Split(_, _)
\* String.prototype.split(c): always at least one part
Split(s, c) ==
  LET p == IndexOf(s, c, 1)
  IN IF p = 0 THEN <<s>>
     ELSE <<SubSeq(s, 1, p - 1)>> \o Split(SliceFrom(s, p + 1), c)

RECURSIVE Join(_, _)
\* Array.prototype.join(sep)
Join(parts, sep) ==
  IF parts = <<>> THEN <<>>
  ELSE IF Len(parts) = 1 THEN parts[1]
  ELSE parts[1] \o sep \o Join(Tail(parts), sep)

\* whether arr[i], for a zero-based index, is an element (not undefined)
Has(arr, i) == i \in 0..(Len(arr) - 1)

\* arr[i] for a zero-based index that is in range
At(arr, i) == arr[i + 1]

-----------------------------------------------------------------------------
(* Identifier parsing, lines 92-108 *)

\* INTERNAL_NAME_RE.exec(s): the capture groups' bounds, or NULL.
\*   ^([^.]+)\.([^.]+)\.([^_]+)_(\d{3})\.([A-Za-z0-9]+)$
\* [^.]+ cannot cross a dot and [^_]+ cannot cross an underscore, so the
\* only candidate match ends group 1 at the first dot, group 2 at the next
\* dot and group 3 at the first underscore after that.
INTERNAL_NAME_RE(s) ==
  LET Groups(d1, d2, u) ==
        IF /\ d1 > 1
           /\ d2 > d1 + 1
           /\ u > d2 + 1
           /\ Len(s) >= u + 5
           /\ \A i \in (u + 1)..(u + 3) : s[i] \in Digits
           /\ s[u + 4] = "."
           /\ \A i \in (u + 5)..Len(s) : s[i] \in Digits \cup Letters
        THEN <<SubSeq(s, 1, d1 - 1), SubSeq(s, d1 + 1, d2 - 1),
               SubSeq(s, d2 + 1, u - 1), SubSeq(s, u + 1, u + 3),
               SliceFrom(s, u + 5)>>
        ELSE NULL
      AfterDot2(d1, d2) ==
        Groups(d1, d2, IF d2 = 0 THEN 0 ELSE IndexOf(s, "_", d2 + 1))
      AfterDot1(d1) ==
        AfterDot2(d1, IF d1 = 0 THEN 0 ELSE IndexOf(s, ".", d1 + 1))
  IN AfterDot1(IndexOf(s, ".", 1))

\* variant: returns capture group 2, the group id, instead of group 3
extractSubIdTakingGroup2(filename) ==
  LET Group2(m) == IF m = NULL THEN NULL ELSE m[2]
  IN Group2(INTERNAL_NAME_RE(OrElse(filename, <<>>)))

extractSubIdFromFilename(filename) ==
  LET Group3(m) == IF m = NULL THEN NULL ELSE m[3]
  IN Group3(INTERNAL_NAME_RE(OrElse(filename, <<>>)))

\* stands for Number.MAX_SAFE_INTEGER = 2^53 - 1, which exceeds the integers
\* TLC computes with; the group ids of the model stay below this value
MAX_SAFE_INTEGER == 2147483647

DigitValue(c) ==
  CASE c = "0" -> 0 [] c = "1" -> 1 [] c = "2" -> 2 [] c = "3" -> 3
    [] c = "4" -> 4 [] c = "5" -> 5 [] c = "6" -> 6 [] c = "7" -> 7
    [] c = "8" -> 8 [] c = "9" -> 9

RECURSIVE parseInt(_)
\* parseInt(s, 10) of a string of decimal digits
parseInt(s) ==
  IF s = <<>> THEN 0
  ELSE 10 * parseInt(SubSeq(s, 1, Len(s) - 1)) + DigitValue(s[Len(s)])

extractGrpIdFromGroupName(groupName) ==
  LET Id(parts) ==
        IF /\ Len(parts) >= 2
           /\ parts[2] # <<>>
           /\ \A i \in 1..Len(parts[2]) : parts[2][i] \in Digits
        THEN parseInt(parts[2])
        ELSE MAX_SAFE_INTEGER
  IN Id(Split(OrElse(groupName, <<>>), "."))

-----------------------------------------------------------------------------
(* Group ordering, lines 110-120 *)

\* variant: the comparator with its operands swapped (idb - ida)
compareGroupsDescending(groups, a, b) ==
  extractGrpIdFromGroupName(At(groups, b).name)
  - extractGrpIdFromGroupName(At(groups, a).name)

\* the comparator handed to indices.sort
compareGroups(groups, a, b) ==
  extractGrpIdFromGroupName(At(groups, a).name)
  - extractGrpIdFromGroupName(At(groups, b).name)

RECURSIVE SortInsert(_, _, _)
\* Array.prototype.sort is stable (ECMAScript 2019): an element moves in
\* front of exactly those earlier elements the comparator puts after it
SortInsert(groups, sorted, x) ==
  IF sorted = <<>> THEN <<x>>
  ELSE LET last == sorted[Len(sorted)]
       IN IF compareGroups(groups, last, x) > 0
          THEN SortInsert(groups, SubSeq(sorted, 1, Len(sorted) - 1), x) \o <<last>>
          ELSE sorted \o <<x>>

RECURSIVE SortPrefix(_, _)
\* the first n indices 0..n-1, sorted
SortPrefix(groups, n) ==
  IF n = 0 THEN <<>>
  ELSE SortInsert(groups, SortPrefix(groups, n - 1), n - 1)

buildGroupOrder(groups) == SortPrefix(groups, Len(groups))

-----------------------------------------------------------------------------
(* Sub-block partition, lines 126-140 *)

\* position of the block keyed subId in the Map's insertion order, 0 if none
BlockOf(blocks, subId) ==
  LET hits == {b \in 1..Len(blocks) : blocks[b].subId = subId}
  IN IF hits = {} THEN 0 ELSE CHOOSE b \in hits : TRUE

RECURSIVE SplitFrom(_, _, _)
\* photos.forEach from zero-based index on, blocks being the Map's values
SplitFrom(photos, index, blocks) ==
  IF index >= Len(photos) THEN blocks
  ELSE
    LET Push(photo, subId, withKey) ==
          [withKey EXCEPT ![BlockOf(withKey, subId)].items =
                            Append(@, [photo |-> photo, index |-> index])]
        Visit(photo, subId) ==
          IF ~Truthy(subId) THEN blocks
          ELSE Push(photo, subId,
                    IF BlockOf(blocks, subId) = 0
                    THEN Append(blocks, [subId |-> subId, items |-> <<>>])
                    ELSE blocks)
    IN SplitFrom(photos, index + 1,
                 Visit(At(photos, index),
                       extractSubIdFromFilename(
                         OrElse(At(photos, index).filename, <<>>))))

\* null where a list of blocks is expected: no list of blocks holds a block
\* whose subId is null
NO_BLOCKS == <<[subId |-> NULL, items |-> <<>>]>>

\* variant: the test blocks.length < 1, which lets a single block through
TooFewBlocksOnlyWhenEmpty(blocks) == Len(blocks) < 1

\* line 138: the blocks.length test that decides between blocks and null
TooFewBlocks(blocks) == Len(blocks) <= 1

splitPhotosBySubId(photos) ==
  LET blocks == SplitFrom(photos, 0, <<>>)
  IN IF TooFewBlocks(blocks) THEN NO_BLOCKS ELSE blocks

-----------------------------------------------------------------------------
(* Label formatting, lines 181-226 *)

formatCategoryTitle(rawTitle, catKey) ==
  LET Cut(base, dotIndex) ==
        IF dotIndex > 0 THEN SliceFrom(base, dotIndex + 1) ELSE base
      Title(base) == Cut(base, IndexOf(base, ".", 1))
  IN Title(OrElse(rawTitle, OrElse(catKey, <<>>)))

formatGroupTitle(groupName) ==
  LET Title(name, parts) ==
        IF Len(parts) >= 3
        THEN <<"U+3010">> \o Join(SubSeq(parts, 3, Len(parts)), <<".">>)
             \o <<"U+3011">>
        ELSE <<"U+3010">> \o name \o <<"U+3011">>
  IN Title(OrElse(groupName, <<>>), Split(OrElse(groupName, <<>>), "."))

formatGroupLabelForContext(groupName) ==
  LET Label(name, parts) ==
        IF Len(parts) >= 3
        THEN Join(SubSeq(parts, 3, Len(parts)), <<".">>)
        ELSE name
  IN Label(OrElse(groupName, <<>>), Split(OrElse(groupName, <<>>), "."))

formatDisplayFilename(filename) ==
  LET Cut(base, pos) == IF pos > 0 THEN SliceFrom(base, pos + 1) ELSE base
      Name(base) == Cut(base, IndexOf(base, "_", 1))
  IN Name(OrElse(filename, <<>>))

-----------------------------------------------------------------------------
(* window.PHOTOS_INDEX, lines 8-27: the read-only collection.  Three        *)
(* categories that differ in their number of groups; group ids out of      *)
(* order, tied and malformed; sub-identifiers "X", "1" and "a.b"; an       *)
(* unparseable filename; an empty group; empty titles and labels.          *)

Photo(filename, src) == [filename |-> filename, src |-> src]

Group(name, photos) == [name |-> name, photos |-> photos]

Category1 ==
  [title  |-> <<"1", ".", "U+5FD8", "U+5E74", "U+4F1A">>,
   groups |-> <<
     Group(<<"1", ".", "9", ".", "U+96C6", "U+5408">>, <<
       Photo(<<"1", ".", "9", ".", "X", "_", "0", "0", "1", ".", "j", "p", "g">>,
             <<"a", "0">>),
       Photo(<<"1", ".", "9", ".", "X", "_", "0", "0", "2", ".", "j", "p", "g">>,
             <<"a", "1">>) >>),
     Group(<<"1", ".", "5", ".", "U+5168", "U+4F53", "U+6B53", "U+8AC7">>, <<
       Photo(<<"1", ".", "5", ".", "X", "_", "0", "0", "1", ".", "j", "p", "g">>,
             <<"b", "0">>),
       Photo(<<"1", ".", "5", ".", "1", "_", "0", "0", "2", ".", "j", "p", "g">>,
             <<"b", "1">>),
       Photo(<<"I", "M", "G", ".", "j", "p", "g">>,
             <<"b", "2">>),
       Photo(<<"1", ".", "5", ".", "X", "_", "0", "0", "3", ".", "j", "p", "g">>,
             <<"b", "3">>) >>),
     Group(<<"m", "i", "s", "c">>, <<>>) >>]

Category2 ==
  [title  |-> NULL,
   groups |-> <<
     Group(<<"2", ".", "1", "0", ".", "a", ".", "b">>, <<
       Photo(<<"2", ".", "1", "0", ".", "a", ".", "b", "_", "0", "0", "1", ".", "j", "p", "g">>,
             <<"c", "0">>),
       Photo(<<"2", ".", "1", "0", ".", "c", "_", "0", "0", "2", ".", "P", "N", "G">>,
             <<"c", "1">>) >>),
     Group(<<"2", ".", "5", ".">>, <<
       Photo(<<"2", ".", "5", ".", "X", "_", "0", "0", "1", ".", "j", "p", "g">>,
             <<"d", "0">>) >>) >>]

Category3 ==
  [title  |-> <<"3", ".">>,
   groups |-> <<
     Group(<<>>, <<
       Photo(<<"3", ".", "1", ".", "X", "_", "0", "0", "1", ".", "j", "p", "g">>,
             <<"e", "0">>) >>) >>]

PHOTOS_INDEX ==
  [categories |->
     (<<"1">> :> Category1) @@ (<<"2">> :> Category2) @@ (<<"3">> :> Category3)]

\* whether categories[catKey] is a category (not undefined)
HasCategory(catKey) == catKey \in DOMAIN PHOTOS_INDEX.categories

\* categories[catKey] for a key the collection holds
CategoryAt(catKey) == PHOTOS_INDEX.categories[catKey]

-----------------------------------------------------------------------------
(* The page: what the handlers read and write *)

Page ==
  [screen             |-> screen,
   currentCategoryKey |-> currentCategoryKey,
   currentGroupIndex  |-> currentGroupIndex,
   currentPhotoIndex  |-> currentPhotoIndex,
   galleryTitle       |-> galleryTitle,
   galleryContainer   |-> galleryContainer,
   viewerImage        |-> viewerImage,
   viewerFilename     |-> viewerFilename,
   viewerContext      |-> viewerContext,
   lastError          |-> lastError]

\* an uncaught TypeError ends the handler; what it wrote before stays
Throw(s) == [s EXCEPT !.lastError = "TypeError"]

\* lines 146-174
showScreen(s, name) == [s EXCEPT !.screen = name]

-----------------------------------------------------------------------------
(* Gallery screen, lines 263-347 *)

Element(tag, text, thumbs) == [tag |-> tag, text |-> text, thumbs |-> thumbs]

\* a div.thumb: its image, its caption and the arguments its click handler
\* hands to openViewer
Thumb(photo, catKey, groupIndex, index) ==
  [src   |-> photo.src,
   file  |-> formatDisplayFilename(photo.filename),
   click |-> <<catKey, groupIndex, index>>]

\* lines 288-307: a thumbnail of the flat grid
FlatThumb(catKey, groupIndex, photo, index) ==
  Thumb(photo, catKey, groupIndex, index)

\* variant: the click handler closes over the item's place in its block
\* instead of its index in the group's photos
BlockThumbByPosition(catKey, groupIndex, item, position) ==
  Thumb(item.photo, catKey, groupIndex, position)

\* lines 320-339: a thumbnail of a sub-block, item being {photo, index} and
\* position the item's place in its block
BlockThumb(catKey, groupIndex, item, position) ==
  Thumb(item.photo, catKey, groupIndex, item.index)

RECURSIVE RenderBlocks(_, _, _)
\* lines 311-342
RenderBlocks(catKey, groupIndex, subBlocks) ==
  IF subBlocks = <<>> THEN <<>>
  ELSE
    LET Block(block) ==
          <<Element("h4", <<"U+25A0", " ">> \o block.subId, <<>>),
            Element("grid", <<>>,
              [k \in 1..Len(block.items) |->
                 BlockThumb(catKey, groupIndex, block.items[k], k - 1)])>>
    IN Block(Head(subBlocks))
       \o RenderBlocks(catKey, groupIndex, Tail(subBlocks))

\* lines 274-343: one turn of order.forEach
RenderGroup(catKey, groups, groupIndex) ==
  LET Draw(group, photos, subBlocks) ==
        <<Element("h3", formatGroupTitle(group.name), <<>>)>>
        \o (IF subBlocks = NO_BLOCKS
            THEN <<Element("grid", <<>>,
                     [k \in 1..Len(photos) |->
                        FlatThumb(catKey, groupIndex, photos[k], k - 1)])>>
            ELSE RenderBlocks(catKey, groupIndex, subBlocks))
  IN Draw(At(groups, groupIndex), At(groups, groupIndex).photos,
          splitPhotosBySubId(At(groups, groupIndex).photos))

RECURSIVE RenderGroups(_, _, _)
\* lines 273-344: order.forEach
RenderGroups(catKey, groups, order) ==
  IF order = <<>> THEN <<>>
  ELSE RenderGroup(catKey, groups, Head(order))
       \o RenderGroups(catKey, groups, Tail(order))

\* variant: the container is not emptied before the groups are appended
KeepContainer(children) == children

\* line 268: galleryContainer.innerHTML = ""
ClearContainer(children) == <<>>

openGalleryForCategory(s, catKey) ==
  IF ~HasCategory(catKey) THEN Throw(s)                 \* line 265: cat.title
  ELSE
    LET Draw(cat, displayTitle, groups, order) ==
          showScreen(
            [s EXCEPT !.galleryTitle = displayTitle,
                      !.galleryContainer =
                        ClearContainer(@) \o RenderGroups(catKey, groups, order)],
            "gallery")
        Open(cat) ==
          Draw(cat, formatCategoryTitle(cat.title, catKey), cat.groups,
               buildGroupOrder(cat.groups))
    IN Open(CategoryAt(catKey))

-----------------------------------------------------------------------------
(* Viewer screen, lines 353-389 *)

\* variant: the test without its comparison with "X"
ShowsSubIdEvenX(subId) == Truthy(subId)

\* line 380: whether the sub-identifier joins the context
ShowsSubId(subId) == Truthy(subId) /\ subId # <<"X">>

openViewer(s, catKey, groupIndex, photoIndex) ==
  LET Context(displayTitle, groupLabel, subId) ==
        Join((IF Truthy(displayTitle) THEN <<displayTitle>> ELSE <<>>)
             \o (IF Truthy(groupLabel) THEN <<groupLabel>> ELSE <<>>)
             \o (IF ShowsSubId(subId) THEN <<subId>> ELSE <<>>),
             <<" ", "/", " ">>)
      Show(s1, cat, group, photo) ==
        showScreen(
          [s1 EXCEPT
             !.viewerImage = [src |-> photo.src,
                              alt |-> OrElse(photo.filename, <<>>)],
             !.viewerFilename = formatDisplayFilename(photo.filename),
             !.viewerContext =
               Context(formatCategoryTitle(cat.title, catKey),
                       formatGroupLabelForContext(group.name),
                       extractSubIdFromFilename(photo.filename))],
          "viewer")
      Select(s1, cat, group) ==
        IF ~Has(group.photos, photoIndex)
        THEN Throw(s1)                                  \* line 364: photo.src
        ELSE Show(s1, cat, group, At(group.photos, photoIndex))
      Open(cat) ==
        IF ~Has(cat.groups, groupIndex)
        THEN Throw(s)                                   \* line 357: group.photos
        ELSE Select([s EXCEPT !.currentCategoryKey = catKey,
                              !.currentGroupIndex = groupIndex,
                              !.currentPhotoIndex = photoIndex],
                    cat, At(cat.groups, groupIndex))
  IN IF ~HasCategory(catKey)
     THEN Throw(s)                                      \* line 356: cat.groups
     ELSE Open(CategoryAt(catKey))

-----------------------------------------------------------------------------
(* Event handlers *)

\* variant: the Gallery screen is shown before the gallery is rendered
categoryCardClickShowingFirst(s, catKey) ==
  openGalleryForCategory(
    showScreen([s EXCEPT !.currentCategoryKey = catKey], "gallery"), catKey)

\* lines 250-253: click on a category card
categoryCardClick(s, catKey) ==
  openGalleryForCategory([s EXCEPT !.currentCategoryKey = catKey], catKey)

\* lines 302-304 and 334-336: click on a thumbnail
thumbClick(s, click) == openViewer(s, click[1], click[2], click[3])

\* variant: the handler also resets the three current* variables
homeButtonClickClearing(s) ==
  showScreen([s EXCEPT !.currentCategoryKey = NULL,
                       !.currentGroupIndex = NullIndex,
                       !.currentPhotoIndex = NullIndex], "category")

\* lines 398-400
homeButtonClick(s) == showScreen(s, "category")

\* variant: the handler resets currentGroupIndex and currentPhotoIndex
backButtonClickDiscarding(s) ==
  IF Truthy(s.currentCategoryKey)
  THEN openGalleryForCategory([s EXCEPT !.currentGroupIndex = NullIndex,
                                        !.currentPhotoIndex = NullIndex],
                              s.currentCategoryKey)
  ELSE showScreen(s, "gallery")

\* lines 405-411
backButtonClick(s) ==
  IF Truthy(s.currentCategoryKey)
  THEN openGalleryForCategory(s, s.currentCategoryKey)
  ELSE showScreen(s, "gallery")

-----------------------------------------------------------------------------
(* The navigation machine: one action per event the host dispatches *)

\* the largest group index and photo index a selectItem event may carry;
\* the collection's categories have at most 3 groups of at most 4 photos,
\* so the events include indices out of range
MaxGroupIndex == 3

MaxPhotoIndex == 4

\* a key the collection does not hold
UnknownKey == <<"9">>

NoThumb == [src |-> <<>>, file |-> <<>>, click |-> <<NULL, NullIndex, NullIndex>>]

Event(name, key, g, i, thumb) ==
  [name |-> name, key |-> key, groupIndex |-> g, photoIndex |-> i, thumb |-> thumb]

\* the handler's result becomes the page (an action hands it over as a
\* bound value, so that the handler is evaluated once)
Becomes(s) ==
  /\ screen' = s.screen
  /\ currentCategoryKey' = s.currentCategoryKey
  /\ currentGroupIndex' = s.currentGroupIndex
  /\ currentPhotoIndex' = s.currentPhotoIndex
  /\ galleryTitle' = s.galleryTitle
  /\ galleryContainer' = s.galleryContainer
  /\ viewerImage' = s.viewerImage
  /\ viewerFilename' = s.viewerFilename
  /\ viewerContext' = s.viewerContext
  /\ lastError' = s.lastError

\* the page as a handler finds it: no error pending
Entered == [Page EXCEPT !.lastError = "none"]

\* lines 419-439: after init
InitNav ==
  /\ screen = "category"
  /\ currentCategoryKey = NULL
  /\ currentGroupIndex = NullIndex
  /\ currentPhotoIndex = NullIndex
  /\ galleryTitle = <<>>
  /\ galleryContainer = <<>>
  /\ viewerImage = [src |-> <<>>, alt |-> <<>>]
  /\ viewerFilename = <<>>
  /\ viewerContext = <<>>
  /\ lastError = "none"
  /\ lastEvent = Event("init", NULL, NullIndex, NullIndex, NoThumb)
  /\ entryGallery = [title |-> <<>>, container |-> <<>>]

Init ==
  /\ InitNav
  /\ input = NULL
  /\ output = NULL
  /\ pc = "nav"

\* selectCategory(key): a category card of the Category screen is clicked
SelectCategory ==
  /\ pc = "nav"
  /\ screen = "category"
  /\ \E key \in DOMAIN PHOTOS_INDEX.categories \cup {UnknownKey} :
       \E s \in {categoryCardClick(Entered, key)} :
          /\ Becomes(s)
          /\ lastEvent' = Event("selectCategory", key, NullIndex, NullIndex, NoThumb)
          /\ entryGallery' = [title |-> s.galleryTitle, container |-> s.galleryContainer]
  /\ UNCHANGED <<input, output, pc>>

\* a thumbnail of the Gallery screen is clicked
ClickThumbnail ==
  /\ pc = "nav"
  /\ screen = "gallery"
  /\ \E e \in 1..Len(galleryContainer) :
       \E k \in 1..Len(galleryContainer[e].thumbs) :
         \E thumb \in {galleryContainer[e].thumbs[k]} :
           \E s \in {thumbClick(Entered, thumb.click)} :
             /\ Becomes(s)
             /\ lastEvent' = Event("clickThumbnail", thumb.click[1],
                                   thumb.click[2], thumb.click[3], thumb)
  /\ UNCHANGED <<entryGallery, input, output, pc>>

\* selectItem(groupIndex, itemIndex) on the Gallery screen, the indices
\* being any the caller passes
SelectItem ==
  /\ pc = "nav"
  /\ screen = "gallery"
  /\ \E g \in 0..MaxGroupIndex, i \in 0..MaxPhotoIndex :
       \E s \in {thumbClick(Entered, <<currentCategoryKey, g, i>>)} :
         /\ Becomes(s)
         /\ lastEvent' = Event("selectItem", currentCategoryKey, g, i, NoThumb)
  /\ UNCHANGED <<entryGallery, input, output, pc>>

\* navigateHome(): the home button, shown on the Gallery and Viewer screens
NavigateHome ==
  /\ pc = "nav"
  /\ screen # "category"
  /\ \E s \in {homeButtonClick(Entered)} : Becomes(s)
  /\ lastEvent' = Event("navigateHome", NULL, NullIndex, NullIndex, NoThumb)
  /\ UNCHANGED <<entryGallery, input, output, pc>>

\* navigateBack(): the back button of the Viewer screen
NavigateBack ==
  /\ pc = "nav"
  /\ screen = "viewer"
  /\ \E s \in {backButtonClick(Entered)} : Becomes(s)
  /\ lastEvent' = Event("navigateBack", NULL, NullIndex, NullIndex, NoThumb)
  /\ UNCHANGED <<entryGallery, input, output, pc>>

Next ==
  \/ SelectCategory
  \/ ClickThumbnail
  \/ SelectItem
  \/ NavigateHome
  \/ NavigateBack

Spec == Init /\ [][Next]_vars

-----------------------------------------------------------------------------
(* The pure functions on their own: Init draws an argument, the action     *)
(* applies the function to it.                                             *)

\* all strings over alphabet of length at most n
Strings(alphabet, n) == UNION {[1..k -> alphabet] : k \in 0..n}

\* longest first and second segment of a drawn filename
MaxHead == 1

\* longest third segment of a drawn filename
MaxSub == 2

\* longest digit sequence of a drawn filename
MaxSeq == 4

\* filenames <seg>.<seg>.<seg>_<digits>.<ext> with each separator present
\* or missing, a first segment that may hold "_", a third that may hold
\* ".", any number of digits, and an extension that may be missing or
\* hold a character outside [A-Za-z0-9]; and null
Filenames ==
  {NULL} \cup
  {a \o d1 \o b \o d2 \o c \o us \o q \o d3 \o e :
     a \in Strings({"1", "_"}, MaxHead), d1 \in {<<>>, <<".">>},
     b \in Strings({"2"}, MaxHead),      d2 \in {<<>>, <<".">>},
     c \in Strings({"X", "."}, MaxSub),  us \in {<<>>, <<"_">>},
     q \in Strings({"0"}, MaxSeq),       d3 \in {<<>>, <<".">>},
     e \in {<<>>, <<"j">>, <<"j", "-">>}}

InitParse ==
  /\ InitNav
  /\ input \in Filenames
  /\ output = NULL
  /\ pc = "ready"

ParseFilename ==
  /\ pc = "ready"
  /\ output' = extractSubIdFromFilename(input)
  /\ pc' = "done"
  /\ UNCHANGED <<navVars, input>>

NextParse == ParseFilename

SpecParse == InitParse /\ [][NextParse]_vars

\* most photos of a drawn group
MaxPhotos == 4

\* filenames with sub-identifiers "X", "1" and "a.b", one that does not
\* parse, and a missing one
PhotoNames ==
  {<<"1", ".", "5", ".", "X", "_", "0", "0", "1", ".", "j", "p", "g">>,
   <<"1", ".", "5", ".", "1", "_", "0", "0", "2", ".", "j", "p", "g">>,
   <<"1", ".", "5", ".", "a", ".", "b", "_", "0", "0", "3", ".", "j", "p", "g">>,
   <<"I", "M", "G", ".", "j", "p", "g">>,
   NULL}

\* photo lists of at most MaxPhotos photos, the src of each naming its place
PhotoLists ==
  {[k \in 1..Len(names) |->
      Photo(names[k], <<"s", <<"0", "1", "2", "3", "4", "5", "6", "7">>[k]>>)] :
     names \in Strings(PhotoNames, MaxPhotos)}

InitPartition ==
  /\ InitNav
  /\ input \in PhotoLists
  /\ output = NULL
  /\ pc = "ready"

PartitionPhotos ==
  /\ pc = "ready"
  /\ output' = splitPhotosBySubId(input)
  /\ pc' = "done"
  /\ UNCHANGED <<navVars, input>>

NextPartition == PartitionPhotos

SpecPartition == InitPartition /\ [][NextPartition]_vars

\* most groups of a drawn category
MaxGroups == 4

\* group names with ids 9, 10, 5 and 05, one without a dot, one whose
\* second part is not a number, and the empty name
GroupNames ==
  {<<"1", ".", "9", ".", "G">>,
   <<"1", ".", "1", "0", ".", "A">>,
   <<"1", ".", "5", ".", "C">>,
   <<"2", ".", "0", "5">>,
   <<"m", "i", "s", "c">>,
   <<"1", ".", "x", ".", "D">>,
   <<>>}

GroupLists ==
  {[k \in 1..Len(names) |-> Group(names[k], <<>>)] :
     names \in Strings(GroupNames, MaxGroups)}

InitOrder ==
  /\ InitNav
  /\ input \in GroupLists
  /\ output = NULL
  /\ pc = "ready"

OrderGroups ==
  /\ pc = "ready"
  /\ output' = buildGroupOrder(input)
  /\ pc' = "done"
  /\ UNCHANGED <<navVars, input>>

NextOrder == OrderGroups

SpecOrder == InitOrder /\ [][NextOrder]_vars

-----------------------------------------------------------------------------
(* Properties of the navigation machine *)

SelectionCleared ==
  /\ currentCategoryKey = NULL
  /\ currentGroupIndex = NullIndex
  /\ currentPhotoIndex = NullIndex

\* C1, as claimed: a navigateHome event taken from the Gallery or the Viewer
\* screen ends in the Category screen with Selection cleared (categoryKey,
\* groupIndex and itemIndex all none).
C1_HomeClearsSelection ==
  [][(lastEvent'.name = "navigateHome" /\ screen # "category")
       => (screen' = "category" /\ SelectionCleared')]_vars

\* C1, amended: a navigateHome event taken from the Gallery or the Viewer
\* screen ends in the Category screen and leaves Selection as it was:
\* categoryKey, groupIndex and itemIndex keep their values.
C1_HomeKeepsSelection ==
  [][(lastEvent'.name = "navigateHome" /\ screen # "category")
       => /\ screen' = "category"
          /\ UNCHANGED <<currentCategoryKey, currentGroupIndex,
                         currentPhotoIndex>>]_vars

\* home was pressed on a page whose Selection holds an item
C1_Witness ==
  /\ lastEvent.name = "navigateHome"
  /\ screen = "category"
  /\ currentCategoryKey # NULL
  /\ currentGroupIndex # NullIndex
  /\ currentPhotoIndex # NullIndex

\* C2, as claimed: a navigateBack event taken from the Viewer screen ends in
\* the Gallery screen with categoryKey as it was in the Viewer and with
\* groupIndex and itemIndex discarded (both none).
C2_BackDiscardsIndices ==
  [][(lastEvent'.name = "navigateBack" /\ screen = "viewer")
       => /\ screen' = "gallery"
          /\ currentCategoryKey' = currentCategoryKey
          /\ currentGroupIndex' = NullIndex
          /\ currentPhotoIndex' = NullIndex]_vars

\* C2, amended: a navigateBack event taken from the Viewer screen ends in
\* the Gallery screen with categoryKey, groupIndex and itemIndex all as
\* they were in the Viewer.
C2_BackKeepsSelection ==
  [][(lastEvent'.name = "navigateBack" /\ screen = "viewer")
       => /\ screen' = "gallery"
          /\ UNCHANGED <<currentCategoryKey, currentGroupIndex,
                         currentPhotoIndex>>]_vars

\* back was pressed in the Viewer
C2_Witness ==
  /\ lastEvent.name = "navigateBack"
  /\ screen = "gallery"
  /\ currentCategoryKey # NULL
  /\ currentGroupIndex # NullIndex
  /\ currentPhotoIndex # NullIndex

\* whether (key, g, i) addresses an item of the collection
AddressesItem(key, g, i) ==
  /\ HasCategory(key)
  /\ Has(CategoryAt(key).groups, g)
  /\ Has(At(CategoryAt(key).groups, g).photos, i)

\* the item (key, g, i) addresses
ItemAt(key, g, i) == At(At(CategoryAt(key).groups, g).photos, i)

\* C3: in every reachable state, whenever Selection's groupIndex and
\* itemIndex are set, categoryKey is a key of the collection, groupIndex an
\* index into that category's groups and itemIndex an index into that
\* group's photos; also after selectItem events with an index out of range.
C3_SelectionAddressesItem ==
  (currentGroupIndex # NullIndex /\ currentPhotoIndex # NullIndex)
    => AddressesItem(currentCategoryKey, currentGroupIndex, currentPhotoIndex)

\* C4: selectCategory(k), selectItem(g, i), navigateBack ends in the Gallery
\* screen, and the Gallery regenerated on back (title, headings, blocks and
\* items in order) is the one rendered on entry for k.
C4_BackRegeneratesGallery ==
  lastEvent.name = "navigateBack"
    => /\ screen = "gallery"
       /\ galleryTitle = entryGallery.title
       /\ galleryContainer = entryGallery.container

\* back was pressed in the Viewer of an item of a sub-partitioned group
C4_Witness ==
  /\ lastEvent.name = "navigateBack"
  /\ currentCategoryKey = <<"1">>
  /\ currentGroupIndex = 1
  /\ currentPhotoIndex = 3
  /\ Len(galleryContainer) > 2

\* whether the event lastEvent' names, dispatched on the page as it is,
\* references a key or an index the collection does not hold
RejectedEvent ==
  \/ /\ lastEvent'.name = "selectCategory"
     /\ screen = "category"
     /\ ~HasCategory(lastEvent'.key)
  \/ /\ lastEvent'.name = "selectItem"
     /\ screen = "gallery"
     /\ ~AddressesItem(lastEvent'.key, lastEvent'.groupIndex,
                       lastEvent'.photoIndex)

NonEmpty(parts) == SelectSeq(parts, LAMBDA part : part # <<>>)

\* title / group context / sub-identifier for the item (key, g, i), the
\* sub-identifier left out when none or "X"
Breadcrumb(key, g, i) ==
  LET Sub(subId) == IF subId = NULL \/ subId = <<"X">> THEN <<>> ELSE subId
  IN Join(NonEmpty(<<formatCategoryTitle(CategoryAt(key).title, key),
                     formatGroupLabelForContext(At(CategoryAt(key).groups, g).name),
                     Sub(extractSubIdFromFilename(ItemAt(key, g, i).filename))>>),
          <<" ", "/", " ">>)

\* C8: in the Viewer the breadcrumb is the join with " / " of the category
\* title, the group context label and the item's sub-identifier, an empty
\* component left out and the sub-identifier left out when none or "X";
\* the item of sub-identifier "X" of the group U+5168 U+4F53 U+6B53 U+8AC7
\* of the category U+5FD8 U+5E74 U+4F1A shows title / group, the item of
\* sub-identifier "1" shows title / group / 1.
C8_ViewerBreadcrumb ==
  screen = "viewer"
    => /\ viewerContext =
            Breadcrumb(currentCategoryKey, currentGroupIndex, currentPhotoIndex)
       /\ (currentCategoryKey = <<"1">> /\ currentGroupIndex = 1
             /\ currentPhotoIndex = 0)
            => viewerContext =
                 <<"U+5FD8", "U+5E74", "U+4F1A", " ", "/", " ",
                   "U+5168", "U+4F53", "U+6B53", "U+8AC7">>
       /\ (currentCategoryKey = <<"1">> /\ currentGroupIndex = 1
             /\ currentPhotoIndex = 1)
            => viewerContext =
                 <<"U+5FD8", "U+5E74", "U+4F1A", " ", "/", " ",
                   "U+5168", "U+4F53", "U+6B53", "U+8AC7", " ", "/", " ", "1">>

\* the Viewer shows an item whose sub-identifier is "X"
C8_Witness ==
  /\ screen = "viewer"
  /\ currentCategoryKey = <<"1">>
  /\ currentGroupIndex = 1
  /\ currentPhotoIndex = 0
  /\ extractSubIdFromFilename(viewerImage.alt) = <<"X">>

\* the thumbnails of the Gallery container
Thumbnails ==
  UNION {{galleryContainer[e].thumbs[k] : k \in 1..Len(galleryContainer[e].thumbs)} :
           e \in 1..Len(galleryContainer)}

\* C10: every thumbnail of the Gallery, in a flat grid or in a sub-block,
\* carries a (groupIndex, originalIndex) that addresses its own item in the
\* collection; clicking it enters the Viewer on exactly that item, and
\* Selection holds the Gallery's category with those indices.
C10_ThumbnailResolvesToItsItem ==
  /\ \A thumb \in Thumbnails :
       /\ AddressesItem(thumb.click[1], thumb.click[2], thumb.click[3])
       /\ screen = "gallery" => thumb.click[1] = currentCategoryKey
       /\ thumb.src = ItemAt(thumb.click[1], thumb.click[2], thumb.click[3]).src
       /\ thumb.file = formatDisplayFilename(
            ItemAt(thumb.click[1], thumb.click[2], thumb.click[3]).filename)
  /\ lastEvent.name = "clickThumbnail"
       => /\ screen = "viewer"
          /\ lastError = "none"
          /\ viewerImage.src = lastEvent.thumb.src
          /\ viewerFilename = lastEvent.thumb.file
          /\ <<currentCategoryKey, currentGroupIndex, currentPhotoIndex>>
               = lastEvent.thumb.click
          /\ galleryTitle = formatCategoryTitle(
               CategoryAt(currentCategoryKey).title, currentCategoryKey)
          /\ viewerImage.src =
               ItemAt(currentCategoryKey, currentGroupIndex, currentPhotoIndex).src

\* the thumbnail clicked is the second of its sub-block and the fourth
\* photo of its group, and its group is shown first although second in
\* the collection
C10_Witness ==
  /\ lastEvent.name = "clickThumbnail"
  /\ lastEvent.thumb.click = <<<<"1">>, 1, 3>>
  /\ screen = "viewer"

-----------------------------------------------------------------------------
(* Properties of the pure functions *)

Positions(s, c) == {i \in 1..Len(s) : s[i] = c}

\* the ways to read s as <seg>.<seg>.<seg>_<3 digits>.<ext>: the places
\* <<i, j, k>> of the two dots and the underscore, the first two segments
\* non-empty without a dot, the third non-empty without an underscore, the
\* extension non-empty and alphanumeric
ConventionSplits(s) ==
  {t \in Positions(s, ".") \X Positions(s, ".") \X Positions(s, "_") :
     /\ 1 < t[1] /\ t[1] + 1 < t[2] /\ t[2] + 1 < t[3]
     /\ \A p \in 1..(t[2] - 1) : p # t[1] => s[p] # "."
     /\ \A p \in (t[2] + 1)..(t[3] - 1) : s[p] # "_"
     /\ Len(s) >= t[3] + 5
     /\ \A p \in (t[3] + 1)..(t[3] + 3) : s[p] \in Digits
     /\ s[t[3] + 4] = "."
     /\ \A p \in (t[3] + 5)..Len(s) : s[p] \in Digits \cup Letters}

Conforms(s) == ConventionSplits(s) # {}

Parsed(photos) ==
  {i \in 0..(Len(photos) - 1) :
     extractSubIdFromFilename(At(photos, i).filename) # NULL}

SubIdAt(photos, i) == extractSubIdFromFilename(At(photos, i).filename)

SubIds(photos) == {SubIdAt(photos, i) : i \in Parsed(photos)}

\* C6: partition returns none when the photos whose filename parses have 0
\* or 1 distinct sub-identifiers, and never a list of 0 or 1 blocks;
\* otherwise one block per distinct sub-identifier, the blocks in the
\* order their sub-identifier is first seen, and in each block exactly the
\* photos of that sub-identifier, in their original order, each with its
\* index in the original list.
C6_PartitionBlocks ==
  pc = "done"
    => /\ output # NO_BLOCKS => Len(output) >= 2
       /\ Cardinality(SubIds(input)) <= 1 => output = NO_BLOCKS
       /\ Cardinality(SubIds(input)) > 1 =>
            /\ output # NO_BLOCKS
            /\ Len(output) = Cardinality(SubIds(input))
            /\ \A b \in 1..Len(output) :
                 /\ output[b].subId \in SubIds(input)
                 /\ \A c \in 1..Len(output) :
                      b < c => /\ output[b].subId # output[c].subId
                               /\ output[b].items[1].index < output[c].items[1].index
                 /\ {output[b].items[k].index : k \in 1..Len(output[b].items)}
                      = {i \in Parsed(input) : SubIdAt(input, i) = output[b].subId}
                 /\ \A k \in 1..Len(output[b].items) :
                      /\ output[b].items[k].photo = At(input, output[b].items[k].index)
                      /\ k > 1 => output[b].items[k - 1].index < output[b].items[k].index

\* blocks were returned for photos whose sub-identifiers interleave and of
\* which one does not parse
C6_Witness ==
  /\ pc = "done"
  /\ output # NO_BLOCKS
  /\ Len(output) = 2
  /\ Len(output[1].items) = 2
  /\ output[1].items[2].index = 3
  /\ Cardinality(Parsed(input)) < Len(input)

RECURSIVE Decimal(_, _)
\* the value of a string of decimal digits, read from the left
Decimal(digits, value) ==
  IF digits = <<>> THEN value
  ELSE Decimal(Tail(digits), 10 * value + DigitValue(Head(digits)))

\* the ordering key of a group name: the value of its second dot-separated
\* part when there is one and it is all digits, else the sentinel
OrderKey(name) ==
  LET Part(rest) ==
        IF Positions(rest, ".") = {} THEN rest
        ELSE SubSeq(rest, 1, IndexOf(rest, ".", 1) - 1)
      Key(part) ==
        IF part # <<>> /\ \A p \in 1..Len(part) : part[p] \in Digits
        THEN Decimal(part, 0)
        ELSE MAX_SAFE_INTEGER
  IN IF Positions(name, ".") = {} THEN MAX_SAFE_INTEGER
     ELSE Key(Part(SliceFrom(name, IndexOf(name, ".", 1) + 1)))

====
